---- MODULE Spec2Model ----
(***************************************************************************)
(* Job application form (src/src/App.js): the yup validation schema, the   *)
(* React state of the App component (formData, errors, submittedData), its *)
(* event handlers and the conditional rendering of the fields.             *)
(*                                                                         *)
(* handleSubmit is an async function: the part up to the await runs in the *)
(* event handler, the rest when the promise of validationSchema.validate   *)
(* settles.  A call in flight is an element of pending; it holds the       *)
(* formData object the handler's closure captured and the way its promise  *)
(* will settle: resolved, or rejected with an error err that may or may    *)
(* not have an inner list.                                                 *)
(*                                                                         *)
(* The form has no noValidate attribute: the browser delivers the submit   *)
(* event only when the rendered inputs pass its own validation, which for  *)
(* this form is the format check of the type="email" input.                *)
(***************************************************************************)
EXTENDS Integers, Sequences, FiniteSets, TLC

VARIABLES formData, errors, submittedData, pending, edits

vars == <<formData, errors, submittedData, pending, edits>>

-----------------------------------------------------------------------------
(* Bounds of the model.                                                    *)

\* handleSubmit calls whose validation promise has not settled yet
MaxPending == 1
\* change events (handleChange, handleDateChange) in one behaviour of Spec
MaxEdits == 2
\* number of selected skills in the records SpecEval starts from
MaxSkills == 2

-----------------------------------------------------------------------------
(* Raw values.  A text input's value is a JavaScript string; the operator  *)
(* Chars gives the characters of each string the model uses, so that the   *)
(* casts and format tests below work on the characters.                    *)

Chars(s) ==
    CASE s = ""              -> << >>
      [] s = "Ann"           -> <<"A", "n", "n">>
      [] s = "a@b"           -> <<"a", "@", "b">>
      [] s = "a@b.co"        -> <<"a", "@", "b", ".", "c", "o">>
      [] s = "555"           -> <<"5", "5", "5">>
      [] s = "abc"           -> <<"a", "b", "c">>
      [] s = "0"             -> <<"0">>
      [] s = "3"             -> <<"3">>
      [] s = "x.com"         -> <<"x", ".", "c", "o", "m">>
      [] s = "https://x.com" -> <<"h", "t", "t", "p", "s", ":", "/", "/",
                                  "x", ".", "c", "o", "m">>
      [] s = "5 years"       -> <<"5", " ", "y", "e", "a", "r", "s">>
      [] s = "Developer"     -> <<"D", "e", "v", "e", "l", "o", "p", "e", "r">>
      [] s = "Designer"      -> <<"D", "e", "s", "i", "g", "n", "e", "r">>
      [] s = "Manager"       -> <<"M", "a", "n", "a", "g", "e", "r">>

\* the <option> values of the position <select>
PositionOptions == {"", "Developer", "Designer", "Manager"}

\* the values of the three skill checkboxes
SkillOptions == {"JavaScript", "CSS", "Python"}

\* interviewTime is a Date object, or null once the date picker is cleared
Null == [null |-> TRUE]
DateOf(t) == [time |-> t]
DateValues == {DateOf(1), Null}

\* the initial value new Date()
Now == DateOf(1)

FieldNames ==
    <<"fullName", "email", "phoneNumber", "position", "relevantExperience",
      "portfolioURL", "managementExperience", "additionalSkills",
      "interviewTime">>

FieldSet == {FieldNames[i] : i \in 1..Len(FieldNames)}

\* the values each input can deliver as e.target.value.  The Relevant
\* Experience input is type="number": its value is the empty string or a
\* valid number, whatever is typed; the other inputs deliver text as typed
InputValues(name) ==
    CASE name = "fullName"             -> {"", "Ann"}
      [] name = "email"                -> {"", "abc", "a@b", "a@b.co"}
      [] name = "phoneNumber"          -> {"", "abc", "555"}
      [] name = "position"             -> PositionOptions
      [] name = "relevantExperience"   -> {"", "0", "3"}
      [] name = "portfolioURL"         -> {"", "x.com", "https://x.com"}
      [] name = "managementExperience" -> {"", "5 years"}

TextFields ==
    {"fullName", "email", "phoneNumber", "position", "relevantExperience",
     "portfolioURL", "managementExperience"}

-----------------------------------------------------------------------------
(* Sequences of characters.                                                *)

RECURSIVE IndexOf(_, _, _)
\* least index >= i of character c in cs, or 0
IndexOf(cs, c, i) ==
    IF i > Len(cs) THEN 0
    ELSE IF cs[i] = c THEN i
    ELSE IndexOf(cs, c, i + 1)

RECURSIVE Split(_, _)
\* the pieces of cs between the occurrences of c
Split(cs, c) ==
    LET k == IndexOf(cs, c, 1)
    IN  IF k = 0 THEN <<cs>>
        ELSE <<SubSeq(cs, 1, k - 1)>> \o Split(SubSeq(cs, k + 1, Len(cs)), c)

StartsWith(cs, prefix) ==
    /\ Len(cs) >= Len(prefix)
    /\ SubSeq(cs, 1, Len(prefix)) = prefix

Drop(cs, n) == SubSeq(cs, n + 1, Len(cs))

DigitChars == {"0", "1", "2", "3", "4", "5", "6", "7", "8", "9"}

LetterChars ==
    {"a", "b", "c", "e", "g", "h", "i", "l", "m", "n", "o", "p", "r", "s",
     "t", "v", "x", "y", "A", "D", "M"}

DigitValue(c) ==
    CASE c = "0" -> 0 [] c = "1" -> 1 [] c = "2" -> 2 [] c = "3" -> 3
      [] c = "4" -> 4 [] c = "5" -> 5 [] c = "6" -> 6 [] c = "7" -> 7
      [] c = "8" -> 8 [] c = "9" -> 9

AllIn(cs, S) == \A i \in 1..Len(cs) : cs[i] \in S

RECURSIVE Decimal(_)
Decimal(cs) ==
    IF cs = << >> THEN 0
    ELSE 10 * Decimal(SubSeq(cs, 1, Len(cs) - 1)) + DigitValue(cs[Len(cs)])

-----------------------------------------------------------------------------
(* yup, as validationSchema uses it.  A schema is a record: its type, the  *)
(* message of its type check, and its tests in the order they were added.  *)
(* Every schema constructor installs a default type-check message;         *)
(* typeError(msg) replaces it.  The schema passes a schema as then: of     *)
(* when(), the form yup accepts before version 1, where the matching       *)
(* branch is merged into the base schema with concat.  The default         *)
(* type-check messages are shortened to their fixed part.                  *)

DefaultTypeError(type) ==
    CASE type = "number" -> "must be a number type"
      [] type = "string" -> "must be a string type"
      [] type = "array"  -> "must be a array type"
      [] type = "date"   -> "must be a date type"

Schema(type) == [type |-> type, typeError |-> DefaultTypeError(type), tests |-> << >>]

TypeError(schema, message) == [schema EXCEPT !.typeError = message]

\* tests that replace an earlier test of the same name (required, min)
ExclusiveTests == {"required", "min"}

\* schema.test(opts): an exclusive test removes the tests of its name
AddTest(schema, test) ==
    LET kept == SelectSeq(schema.tests,
                    LAMBDA t : ~(t.name = test.name /\ test.name \in ExclusiveTests))
    IN  [schema EXCEPT !.tests = Append(kept, test)]

Required(schema, message) ==
    AddTest(schema, [name |-> "required", arg |-> 0, message |-> message])

Min(schema, min, message) ==
    AddTest(schema, [name |-> "min", arg |-> min, message |-> message])

Email(schema, message) ==
    AddTest(schema, [name |-> "email", arg |-> 0, message |-> message])

Url(schema, message) ==
    AddTest(schema, [name |-> "url", arg |-> 0, message |-> message])

RECURSIVE AddTests(_, _)
AddTests(schema, tests) ==
    IF tests = << >> THEN schema
    ELSE AddTests(AddTest(schema, Head(tests)), Tail(tests))

\* base.concat(then): the type-check message of then, the tests of both
Concat(base, then) ==
    AddTests([base EXCEPT !.typeError = then.typeError], then.tests)

\* schema.when('position', {is, then}): is holds the matching positions
When(schema, is, then) == [base |-> schema, is |-> is, then |-> then]

NoWhen(schema) == [base |-> schema, is |-> {}, then |-> schema]

validationSchema ==
    [name \in FieldSet |->
        CASE name = "fullName" ->
               NoWhen(Required(Schema("string"), "Full Name is required"))
          [] name = "email" ->
               NoWhen(Required(Email(Schema("string"), "Invalid email format"),
                               "Email is required"))
          [] name = "phoneNumber" ->
               NoWhen(Required(TypeError(Schema("number"),
                                         "Phone Number must be a valid number"),
                               "Phone Number is required"))
          [] name = "position" ->
               NoWhen(Required(Schema("string"), "Position is required"))
          [] name = "relevantExperience" ->
               When(Schema("number"), {"Developer", "Designer"},
                    Required(Min(TypeError(Schema("number"),
                                           "Relevant Experience must be a valid number"),
                                 1, "Experience must be greater than 0"),
                             "Relevant Experience is required"))
          [] name = "portfolioURL" ->
               When(Url(Schema("string"), "Invalid URL"), {"Designer"},
                    Required(Schema("string"), "Portfolio URL is required"))
          [] name = "managementExperience" ->
               When(Schema("string"), {"Manager"},
                    Required(Schema("string"), "Management Experience is required"))
          [] name = "additionalSkills" ->
               NoWhen(Min(Schema("array"), 1, "At least one skill must be selected"))
          [] name = "interviewTime" ->
               NoWhen(Required(Schema("date"), "Preferred Interview Time is required"))]

\* Resolve with the condition ignored: the then-schema always applies
ResolveAlwaysThen(name, record) ==
    Concat(validationSchema[name].base, validationSchema[name].then)

\* Resolve with the condition never matching: the base schema always applies
ResolveNeverThen(name, record) == validationSchema[name].base

\* the schema a field is validated with, given the record it belongs to
Resolve(name, record) ==
    LET field == validationSchema[name]
    IN  IF record.position \in field.is
        THEN Concat(field.base, field.then)
        ELSE field.base

-----------------------------------------------------------------------------
(* Casts and tests.                                                        *)

NaN == [nan |-> TRUE, n |-> 0]
Number(n) == [nan |-> FALSE, n |-> n]

\* the number schema's transform of a string: whitespace removed, the
\* empty string is NaN, otherwise +string (decimal digits with a sign)
CastNumber(s) ==
    LET stripped == SelectSeq(Chars(s), LAMBDA c : c # " ")
        signed   == stripped # << >> /\ stripped[1] \in {"+", "-"}
        digits   == IF signed THEN Tail(stripped) ELSE stripped
    IN  IF stripped = << >> THEN NaN
        ELSE IF digits # << >> /\ AllIn(digits, DigitChars)
        THEN Number(IF signed /\ stripped[1] = "-"
                    THEN 0 - Decimal(digits) ELSE Decimal(digits))
        ELSE NaN

\* the value after the schema's cast, and whether it has the schema's type
Cast(schema, raw) ==
    IF schema.type = "number" THEN CastNumber(raw) ELSE raw

IsType(schema, value) ==
    CASE schema.type = "number" -> ~value.nan
      [] schema.type = "date"   -> value # Null
      [] OTHER                  -> TRUE

IsLabel(cs) == cs # << >> /\ AllIn(cs, LetterChars \cup DigitChars)

\* dot-separated labels, at least least of them, the last one letters
IsDomain(cs, least) ==
    LET labels == Split(cs, ".")
    IN  /\ Len(labels) >= least
        /\ \A i \in 1..Len(labels) : IsLabel(labels[i])
        /\ AllIn(labels[Len(labels)], LetterChars)

\* local@domain, the domain with a top-level label
IsEmail(cs) ==
    LET parts == Split(cs, "@")
    IN  /\ Len(parts) = 2
        /\ \A i \in 1..Len(Split(parts[1], ".")) : IsLabel(Split(parts[1], ".")[i])
        /\ IsDomain(parts[2], 2)

UrlSchemes == {<<"h", "t", "t", "p", ":">>, <<"h", "t", "t", "p", "s", ":">>,
               <<"f", "t", "p", ":">>}

\* [scheme:]//host[/path], the host a domain with a top-level label
IsUrl(cs) ==
    LET scheme == {p \in UrlSchemes : StartsWith(cs, p)}
        rest   == IF scheme = {} THEN cs ELSE Drop(cs, Len(CHOOSE p \in scheme : TRUE))
        after  == Drop(rest, 2)
        slash  == IndexOf(after, "/", 1)
        host   == IF slash = 0 THEN after ELSE SubSeq(after, 1, slash - 1)
    IN  /\ StartsWith(rest, <<"/", "/">>)
        /\ IsDomain(host, 2)

\* Passes with min read as a strict lower bound
PassesStrictMin(schema, test, value) ==
    CASE test.name = "required" ->
           IF schema.type = "string" THEN value # "" ELSE TRUE
      [] test.name = "min" ->
           IF schema.type = "array" THEN Len(value) > test.arg
           ELSE value.n > test.arg
      [] test.name = "email" -> value = "" \/ IsEmail(Chars(value))
      [] test.name = "url"   -> value = "" \/ IsUrl(Chars(value))

\* does value (already of the schema's type) pass the test
Passes(schema, test, value) ==
    CASE test.name = "required" ->
           IF schema.type = "string" THEN value # "" ELSE TRUE
      [] test.name = "min" ->
           IF schema.type = "array" THEN Len(value) >= test.arg
           ELSE value.n >= test.arg
      [] test.name = "email" -> value = "" \/ IsEmail(Chars(value))
      [] test.name = "url"   -> value = "" \/ IsUrl(Chars(value))

\* the messages of the tests value fails, in the order of the tests
FailedTests(schema, value) ==
    LET failed == SelectSeq(schema.tests, LAMBDA t : ~Passes(schema, t, value))
    IN  [i \in 1..Len(failed) |-> failed[i].message]

\* schema.validate of one field: the type check first and alone, then
\* every test (abortEarly: false)
ValidateField(name, record) ==
    LET schema == Resolve(name, record)
        value  == Cast(schema, record[name])
    IN  IF ~IsType(schema, value) THEN <<schema.typeError>>
        ELSE FailedTests(schema, value)

ToInner(name, messages) ==
    [i \in 1..Len(messages) |-> [path |-> name, message |-> messages[i]]]

RECURSIVE InnerFrom(_, _)
\* the errors of the fields from the i-th on, in schema order
InnerFrom(i, record) ==
    IF i > Len(FieldNames) THEN << >>
    ELSE ToInner(FieldNames[i], ValidateField(FieldNames[i], record))
             \o InnerFrom(i + 1, record)

\* how the promise of validate settles: resolved, or rejected with err;
\* hasInner says whether err.inner is there, inner is its elements
Resolved == [rejected |-> FALSE, hasInner |-> FALSE, inner |-> << >>]
Rejected(hasInner, inner) == [rejected |-> TRUE, hasInner |-> hasInner, inner |-> inner]

\* validate stopping at the first error (abortEarly: true): the rejection
\* is that one error, whose inner list is empty
ValidateAbortEarly(record) ==
    IF InnerFrom(1, record) = << >> THEN Resolved
    ELSE Rejected(TRUE, << >>)

\* validationSchema.validate(record, {abortEarly: false}): the promise
\* resolves when no field fails, and is rejected with a ValidationError
\* whose inner holds every field's errors otherwise
Validate(record) ==
    IF InnerFrom(1, record) = << >> THEN Resolved
    ELSE Rejected(TRUE, InnerFrom(1, record))

-----------------------------------------------------------------------------
(* The App component.                                                      *)

\* errors and validationErrors: objects from field name to message
NoErrors == [name \in {} |-> ""]

RECURSIVE ErrorsByPath(_, _)
\* err.inner.forEach(error => validationErrors[error.path] = error.message)
ErrorsByPath(inner, validationErrors) ==
    IF inner = << >> THEN validationErrors
    ELSE LET error == Head(inner)
             paths == DOMAIN validationErrors \cup {error.path}
         IN  ErrorsByPath(Tail(inner),
                 [p \in paths |-> IF p = error.path THEN error.message
                                  ELSE validationErrors[p]])

\* the inputs the form renders for a draft
Rendered(name, data) ==
    CASE name = "relevantExperience"   -> data.position \in {"Developer", "Designer"}
      [] name = "portfolioURL"         -> data.position = "Designer"
      [] name = "managementExperience" -> data.position = "Manager"
      [] OTHER                         -> TRUE

Includes(list, x) == \E i \in 1..Len(list) : list[i] = x

\* the change events the rendered form can deliver
Targets(data) ==
    UNION {{[name |-> n, value |-> v, type |-> "text", checked |-> FALSE] :
                v \in InputValues(n)} : n \in {m \in TextFields : Rendered(m, data)}}
    \cup
    {[name |-> "additionalSkills", value |-> v, type |-> "checkbox",
      checked |-> ~Includes(data.additionalSkills, v)] : v \in SkillOptions}

InitialFormData ==
    [fullName |-> "", email |-> "", phoneNumber |-> "", position |-> "",
     relevantExperience |-> "", portfolioURL |-> "", managementExperience |-> "",
     additionalSkills |-> << >>, interviewTime |-> Now]

\* a filled-in application for each position, typed in field by field
FilledIn(position, experience, portfolio, management) ==
    [InitialFormData EXCEPT
        !.fullName = "Ann", !.email = "a@b.co", !.phoneNumber = "555",
        !.position = position, !.relevantExperience = experience,
        !.portfolioURL = portfolio, !.managementExperience = management,
        !.additionalSkills = <<"CSS">>]

\* the drafts a behaviour of Spec starts from: the draft of the first
\* render, and drafts that change events alone have produced from it
StartDrafts ==
    {InitialFormData,
     FilledIn("Developer", "3", "", ""),
     FilledIn("Designer", "3", "https://x.com", ""),
     FilledIn("Manager", "", "", "5 years")}

Init ==
    /\ formData \in StartDrafts
    /\ errors = NoErrors
    /\ submittedData = Null
    /\ pending = << >>
    /\ edits = 0

HandleChange(target) ==
    /\ edits < MaxEdits
    /\ target \in Targets(formData)
    /\ formData' =
         IF target.type = "checkbox"
         THEN LET updatedSkills ==
                      IF target.checked
                      THEN Append(formData.additionalSkills, target.value)
                      ELSE SelectSeq(formData.additionalSkills,
                                     LAMBDA skill : skill # target.value)
              IN  [formData EXCEPT !.additionalSkills = updatedSkills]
         ELSE [formData EXCEPT ![target.name] = target.value]
    /\ edits' = edits + 1
    /\ UNCHANGED <<errors, submittedData, pending>>

HandleDateChange(date) ==
    /\ edits < MaxEdits
    /\ formData' = [formData EXCEPT !.interviewTime = date]
    /\ edits' = edits + 1
    /\ UNCHANGED <<errors, submittedData, pending>>

\* the e-mail format the browser checks on a type="email" input:
\* local@domain, the local part atoms and dots, the domain dot-separated
\* labels, of which one is enough
IsHtmlEmail(cs) ==
    LET parts == Split(cs, "@")
    IN  /\ Len(parts) = 2
        /\ parts[1] # << >>
        /\ AllIn(parts[1], LetterChars \cup DigitChars \cup {"."})
        /\ \A i \in 1..Len(Split(parts[2], ".")) : IsLabel(Split(parts[2], ".")[i])

\* the browser's validation of the rendered inputs, which decides whether
\* a click on Submit fires the submit event: the e-mail input is empty or
\* holds an e-mail address.  No input has a required, min, max or pattern
\* attribute, and the value of the number input is always a valid number
NativeValid(data) == data.email = "" \/ IsHtmlEmail(Chars(data.email))

\* handleSubmit up to the await: validate is called with the formData of
\* the render the handler belongs to, and the call decides how its promise
\* settles
HandleSubmit ==
    /\ NativeValid(formData)
    /\ Len(pending) < MaxPending
    /\ pending' = Append(pending, [formData |-> formData, err |-> Validate(formData)])
    /\ UNCHANGED <<formData, errors, submittedData, edits>>

RemoveAt(seq, i) == SubSeq(seq, 1, i - 1) \o SubSeq(seq, i + 1, Len(seq))

\* HandleSubmitThen storing the draft as it is when the promise resolves
HandleSubmitThenCurrent(i) ==
    /\ i \in 1..Len(pending)
    /\ ~pending[i].err.rejected
    /\ submittedData' = formData
    /\ errors' = NoErrors
    /\ pending' = RemoveAt(pending, i)
    /\ UNCHANGED <<formData, edits>>

\* the promise resolved: the statements after the await
HandleSubmitThen(i) ==
    /\ i \in 1..Len(pending)
    /\ ~pending[i].err.rejected
    /\ submittedData' = pending[i].formData
    /\ errors' = NoErrors
    /\ pending' = RemoveAt(pending, i)
    /\ UNCHANGED <<formData, edits>>

\* HandleSubmitCatch also dropping the accepted record
HandleSubmitCatchClears(i) ==
    /\ i \in 1..Len(pending)
    /\ pending[i].err.rejected
    /\ errors' = IF pending[i].err.hasInner
                 THEN ErrorsByPath(pending[i].err.inner, NoErrors)
                 ELSE NoErrors
    /\ submittedData' = Null
    /\ pending' = RemoveAt(pending, i)
    /\ UNCHANGED <<formData, edits>>

\* the promise rejected: the catch block, which copies err.inner into
\* validationErrors when err has one and leaves it empty otherwise
HandleSubmitCatch(i) ==
    /\ i \in 1..Len(pending)
    /\ pending[i].err.rejected
    /\ errors' = IF pending[i].err.hasInner
                 THEN ErrorsByPath(pending[i].err.inner, NoErrors)
                 ELSE NoErrors
    /\ pending' = RemoveAt(pending, i)
    /\ UNCHANGED <<formData, submittedData, edits>>

Next ==
    \/ \E target \in Targets(formData) : HandleChange(target)
    \/ \E date \in DateValues : HandleDateChange(date)
    \/ HandleSubmit
    \/ \E i \in 1..MaxPending : HandleSubmitThen(i)
    \/ \E i \in 1..MaxPending : HandleSubmitCatch(i)

Spec == Init /\ [][Next]_vars

-----------------------------------------------------------------------------
(* Submit attempts on every draft the form can hold.  Each draft is        *)
(* reached from InitialFormData by change events alone, which leave        *)
(* errors, submittedData and pending as they start.                        *)

SkillLists ==
    {list \in UNION {[1..n -> SkillOptions] : n \in 0..MaxSkills} :
        \A i, j \in 1..Len(list) : list[i] = list[j] => i = j}

Drafts ==
    [fullName : InputValues("fullName"), email : InputValues("email"),
     phoneNumber : InputValues("phoneNumber"), position : InputValues("position"),
     relevantExperience : InputValues("relevantExperience"),
     portfolioURL : InputValues("portfolioURL"),
     managementExperience : InputValues("managementExperience"),
     additionalSkills : SkillLists, interviewTime : DateValues]

InitEval ==
    /\ formData \in Drafts
    /\ errors = NoErrors
    /\ submittedData = Null
    /\ pending = << >>
    /\ edits = 0

NextEval ==
    \/ HandleSubmit
    \/ \E i \in 1..MaxPending : HandleSubmitThen(i)
    \/ \E i \in 1..MaxPending : HandleSubmitCatch(i)

SpecEval == InitEval /\ [][NextEval]_vars

-----------------------------------------------------------------------------
(* The properties.  A step settles the i-th call in flight when it takes   *)
(* it out of pending; the record the call validated is pending[i].formData.*)

Settles(i) == i \in 1..Len(pending) /\ pending' = RemoveAt(pending, i)

IsNumeric(s) == ~CastNumber(s).nan

\* the effective constraint of each field, written out: does it reject
\* the field's value in the record
Rejects(name, record) ==
    CASE name = "fullName" -> record.fullName = ""
      [] name = "email" ->
           record.email = "" \/ ~IsEmail(Chars(record.email))
      [] name = "phoneNumber" -> ~IsNumeric(record.phoneNumber)
      [] name = "position" -> record.position = ""
      [] name = "relevantExperience" ->
           IF record.position \in {"Developer", "Designer"}
           THEN \/ ~IsNumeric(record.relevantExperience)
                \/ CastNumber(record.relevantExperience).n < 1
           ELSE ~IsNumeric(record.relevantExperience)
      [] name = "portfolioURL" ->
           IF record.position = "Designer"
           THEN record.portfolioURL = "" \/ ~IsUrl(Chars(record.portfolioURL))
           ELSE record.portfolioURL # "" /\ ~IsUrl(Chars(record.portfolioURL))
      [] name = "managementExperience" ->
           record.position = "Manager" /\ record.managementExperience = ""
      [] name = "additionalSkills" -> record.additionalSkills = << >>
      [] name = "interviewTime" -> record.interviewTime = Null

Rejecting(record) == {name \in FieldSet : Rejects(name, record)}

UnconditionalFields ==
    {"fullName", "email", "phoneNumber", "position", "additionalSkills",
     "interviewTime"}

\* C1: a submit attempt on a record whose fields all meet their effective
\* constraints succeeds: submittedData becomes that record, field for
\* field, and errors becomes the empty mapping.
C1_ValidRecordAccepted ==
    [][\A i \in 1..MaxPending :
          (Settles(i) /\ Rejecting(pending[i].formData) = {})
              => /\ submittedData' = pending[i].formData
                 /\ errors' = NoErrors]_vars

C1_Witness ==
    /\ submittedData = formData
    /\ Rejecting(formData) = {}
    /\ errors = NoErrors
    /\ pending = << >>

\* C2: the errors a submit attempt produces have an entry for a field
\* exactly when the field's effective constraint rejects its value, and
\* validation reports one error for each such field: it does not stop at
\* the first failing field.
C2_ErrorsAreTheRejectedFields ==
    [][\A i \in 1..MaxPending :
          Settles(i)
              => /\ DOMAIN errors' = Rejecting(pending[i].formData)
                 /\ Len(pending[i].err.inner) = Cardinality(Rejecting(pending[i].formData))]_vars

C2_Witness ==
    /\ pending = << >>
    /\ Cardinality(DOMAIN errors) >= 3
    /\ DOMAIN errors = Rejecting(formData)
    /\ DOMAIN errors # FieldSet

\* C3: for position Manager with the unconditional fields valid and
\* managementExperience empty, a submit attempt yields exactly one error,
\* for managementExperience, whatever relevantExperience and portfolioURL
\* hold.
C3_ManagerOnlyManagementError ==
    [][\A i \in 1..MaxPending :
          (/\ Settles(i)
           /\ pending[i].formData.position = "Manager"
           /\ pending[i].formData.managementExperience = ""
           /\ Rejecting(pending[i].formData) \cap UnconditionalFields = {})
              => DOMAIN errors' = {"managementExperience"}]_vars

\* C4: for position Developer a submit attempt records no error for
\* portfolioURL, whatever its raw value.
C4_DeveloperNoPortfolioError ==
    [][\A i \in 1..MaxPending :
          (Settles(i) /\ pending[i].formData.position = "Developer")
              => "portfolioURL" \notin DOMAIN errors']_vars

\* C5: for position Designer a submit attempt on a record with an empty
\* portfolioURL records an error for portfolioURL and accepts nothing, and
\* one on a record with portfolioURL https://x.com records none for it.
C5_DesignerPortfolioRequiredUrl ==
    [][\A i \in 1..MaxPending :
          (Settles(i) /\ pending[i].formData.position = "Designer")
              => /\ pending[i].formData.portfolioURL = ""
                      => /\ "portfolioURL" \in DOMAIN errors'
                         /\ submittedData' = submittedData
                 /\ pending[i].formData.portfolioURL = "https://x.com"
                      => "portfolioURL" \notin DOMAIN errors']_vars

\* a failed attempt on a Designer record: the only error is the missing
\* portfolio URL
C5_Witness ==
    /\ pending = << >>
    /\ formData.position = "Designer"
    /\ formData.portfolioURL = ""
    /\ DOMAIN errors = {"portfolioURL"}
    /\ errors["portfolioURL"] = "Portfolio URL is required"

\* C7: for every position a submit attempt on a record with no skill
\* selected records an error for additionalSkills, and one on a record
\* with a skill selected records none for it.
C7_SkillsMinimum ==
    [][\A i \in 1..MaxPending :
          Settles(i)
              => IF pending[i].formData.additionalSkills = << >>
                 THEN /\ "additionalSkills" \in DOMAIN errors'
                      /\ submittedData' = submittedData
                 ELSE "additionalSkills" \notin DOMAIN errors']_vars

\* a failed attempt with a skill selected, and none on additionalSkills
C7_Witness ==
    /\ pending = << >>
    /\ formData.additionalSkills = <<"CSS">>
    /\ errors # NoErrors
    /\ "additionalSkills" \notin DOMAIN errors

\* C8: after a failed submit attempt every field with an entry in errors
\* is rendered by the form for the record's position.
C8_EveryErrorIsRendered ==
    [][\A i \in 1..MaxPending :
          Settles(i) => \A name \in DOMAIN errors' : Rendered(name, formData')]_vars

\* C9: submittedData is null or a record every field of which meets its
\* effective constraint.
C9_SubmittedDataIsValid ==
    submittedData # Null => Rejecting(submittedData) = {}

\* a record was accepted although the draft, edited since the submit, is
\* not valid
C9_Witness ==
    /\ submittedData # Null
    /\ Rejecting(formData) # {}
    /\ pending = << >>
    /\ errors = NoErrors

\* C10: no step of a submit attempt changes formData, and the step that
\* ends a failed attempt changes neither formData nor submittedData.
C10_SubmitFrame ==
    [][/\ pending' # pending => formData' = formData
       /\ \A i \in 1..MaxPending :
            (Settles(i) /\ Rejecting(pending[i].formData) # {})
                => submittedData' = submittedData]_vars

\* an accepted record is still there after a later attempt has failed
C10_Witness ==
    /\ submittedData # Null
    /\ errors # NoErrors
    /\ pending = << >>

====
